---- MODULE Spec2Model ----
(***************************************************************************)
(* Model of src/examples/kinematics.cpp: the measurement loop of the       *)
(* contact-aided invariant EKF example.  A log line is a sequence of       *)
(* one-character strings; it is split on single spaces, classified by its  *)
(* first token, parsed with stod/stoi and dispatched to the filter.        *)
(* The filter itself is external: the model records the calls it receives. *)
(*                                                                         *)
(* A double is modelled in fixed point: an integer number of ticks, one    *)
(* tick being 1e-6.  Inputs carry at most six fractional digits.           *)
(***************************************************************************)
EXTENDS Integers, Sequences, FiniteSets, TLC

\* ------------------------------------------------------------------ bounds
MaxLines == 3        \* lines in the data file
MaxEntries == 2      \* kinematic entries on one generated KINEMATIC line

\* ------------------------------------------------------- program constants
SCALE == 1000000     \* ticks per unit (fixed-point resolution 1e-6)
DT_MIN == 1          \* #define DT_MIN 1e-6, in ticks
DT_MAX == 1000000    \* #define DT_MAX 1,   in ticks

\* ------------------------------------------------------------- characters
Digits == <<"0", "1", "2", "3", "4", "5", "6", "7", "8", "9">>

IsDigit(c) == \E d \in 1..10 : Digits[d] = c

DigitVal(c) == (CHOOSE d \in 1..10 : Digits[d] = c) - 1

\* token i of a split line, with the source's 0-based index
At(m, i) == m[i + 1]

\* ------------------------------------------------ boost::split(" ") l.75
\* Every space ends a token; adjacent spaces give empty tokens and the
\* empty line gives one empty token.  The tokens of a line are those of its
\* two halves, the last token of the first half running into the first token
\* of the second.
RECURSIVE SplitRange(_, _, _)
SplitRange(ln, lo, hi) ==
    IF lo > hi THEN << <<>> >>
    ELSE IF lo = hi THEN (IF ln[lo] = " " THEN << <<>>, <<>> >> ELSE << <<ln[lo]>> >>)
    ELSE LET mid == (lo + hi) \div 2
             a == SplitRange(ln, lo, mid)
             b == SplitRange(ln, mid + 1, hi)
         IN  SubSeq(a, 1, Len(a) - 1) \o <<a[Len(a)] \o b[1]>> \o Tail(b)

split(ln) == SplitRange(ln, 1, Len(ln))

\* ------------------------------------------------------- std::stoi, stod
\* Both convert the longest numeric prefix and ignore what follows it;
\* they throw std::invalid_argument when there is no such prefix.
SignLen(s) == IF Len(s) >= 1 /\ s[1] \in {"-", "+"} THEN 1 ELSE 0

Negative(s) == Len(s) >= 1 /\ s[1] = "-"

\* number of digits of s starting at position i
RECURSIVE DigitRun(_, _)
DigitRun(s, i) ==
    IF i <= Len(s) /\ IsDigit(s[i]) THEN 1 + DigitRun(s, i + 1) ELSE 0

\* value of the n digits of s that start at position i
RECURSIVE DigitsValue(_, _, _)
DigitsValue(s, i, n) ==
    IF n = 0 THEN 0
    ELSE 10 * DigitsValue(s, i, n - 1) + DigitVal(s[i + n - 1])

\* value in ticks of the n fractional digits of s that start at position i
RECURSIVE FracTicks(_, _, _, _)
FracTicks(s, i, n, weight) ==
    IF n = 0 \/ weight = 0 THEN 0
    ELSE DigitVal(s[i]) * weight + FracTicks(s, i + 1, n - 1, weight \div 10)

stoi(s) ==
    LET b == SignLen(s) + 1
        n == DigitRun(s, b)
        v == DigitsValue(s, b, n)
    IN  IF n = 0 THEN [ok |-> FALSE, val |-> 0]
        ELSE [ok |-> TRUE, val |-> IF Negative(s) THEN -v ELSE v]

stod(s) ==
    LET b  == SignLen(s) + 1
        n  == DigitRun(s, b)
        dot == b + n <= Len(s) /\ s[b + n] = "."
        f  == IF dot THEN DigitRun(s, b + n + 1) ELSE 0
        v  == DigitsValue(s, b, n) * SCALE
                + (IF dot THEN FracTicks(s, b + n + 1, f, SCALE \div 10) ELSE 0)
    IN  IF n = 0 /\ f = 0 THEN [ok |-> FALSE, val |-> 0]
        ELSE [ok |-> TRUE, val |-> IF Negative(s) THEN -v ELSE v]

\* the number of characters stod converts (what it stores through its idx
\* argument); the rest of the token is ignored
NumericPrefixLen(s) ==
    LET b  == SignLen(s) + 1
        n  == DigitRun(s, b)
        dot == b + n <= Len(s) /\ s[b + n] = "."
        f  == IF dot THEN DigitRun(s, b + n + 1) ELSE 0
    IN  IF n = 0 /\ f = 0 THEN 0
        ELSE SignLen(s) + n + (IF dot THEN 1 + f ELSE 0)

\* ------------------------------------ measurement.size()-2, size_t (64 bit)
\* An unsigned 64-bit value is four 16-bit limbs, least significant first.
LIMB == 65536        \* 2^16

U64(n) == <<n % LIMB, (n \div LIMB) % LIMB, 0, 0>>

RECURSIVE SubLimbs(_, _, _)
SubLimbs(u, k, i) ==
    IF i > 4 THEN <<>>
    ELSE IF u[i] >= k THEN <<u[i] - k>> \o SubLimbs(u, 0, i + 1)
    ELSE <<u[i] + LIMB - k>> \o SubLimbs(u, 1, i + 1)

\* u - k modulo 2^64, for 0 <= k < 2^16
SubU64(u, k) == SubLimbs(u, k, 1)

\* u % k, for 0 < k < 2^15
ModU64(u, k) ==
    LET r4 == u[4] % k
        r3 == (r4 * (LIMB % k) + u[3]) % k
        r2 == (r3 * (LIMB % k) + u[2]) % k
    IN  (r2 * (LIMB % k) + u[1]) % k

\* the subtraction stopping at zero instead of wrapping
PayloadLenClampedAtZero(m) == IF Len(m) < 2 THEN U64(0) ELSE SubU64(U64(Len(m)), 2)

\* the header taken to be three tokens long
PayloadLenHeader3(m) == SubU64(U64(Len(m)), 3)

PayloadLen(m) == SubU64(U64(Len(m)), 2)

\* --------------------------------------------------------------- the tags
IMU == <<"I", "M", "U">>
CONTACT == <<"C", "O", "N", "T", "A", "C", "T">>
KINEMATIC == <<"K", "I", "N", "E", "M", "A", "T", "I", "C">>

\* a is a prefix of b or b of a
IsPrefixEitherWay(a, b) ==
    LET n == IF Len(a) < Len(b) THEN Len(a) ELSE Len(b)
    IN  SubSeq(a, 1, n) = SubSeq(b, 1, n)

\* measurement[0].compare(tag)==0, l.77, l.96, l.112
compare(a, b) == a = b

Zero6 == <<0, 0, 0, 0, 0, 0>>


\* ------------------------------------------------- fixed-point arithmetic
\* ticks per 1e-3: the factors of a product are exact to three decimals
MILLI == SCALE \div 1000

Mul(a, b) == (a \div MILLI) * (b \div MILLI)

RECURSIVE ISqrtIter(_, _)
ISqrtIter(n, x) ==
    LET y == (x + n \div x) \div 2
    IN  IF y >= x THEN x ELSE ISqrtIter(n, y)

ISqrt(n) == IF n = 0 THEN 0 ELSE ISqrtIter(n, n)

\* ------------------------------------- Eigen::Quaternion, l.125-126, l.128
\* Quaternion(w, x, y, z); the inputs of the model never hold the zero
\* quaternion, whose normalisation divides by zero.
Norm(q) == MILLI * ISqrt(Mul(q.w, q.w) + Mul(q.x, q.x) + Mul(q.y, q.y) + Mul(q.z, q.z))

Quot(a, n) == (a \div (n \div MILLI)) * MILLI

normalize(q) ==
    LET n == Norm(q)
    IN  [w |-> Quot(q.w, n), x |-> Quot(q.x, n), y |-> Quot(q.y, n), z |-> Quot(q.z, n)]

toRotationMatrix(q) ==
    LET tx == 2 * q.x
        ty == 2 * q.y
        tz == 2 * q.z
        twx == Mul(tx, q.w)
        twy == Mul(ty, q.w)
        twz == Mul(tz, q.w)
        txx == Mul(tx, q.x)
        txy == Mul(ty, q.x)
        txz == Mul(tz, q.x)
        tyy == Mul(ty, q.y)
        tyz == Mul(tz, q.y)
        tzz == Mul(tz, q.z)
    IN  << <<SCALE - (tyy + tzz), txy - twz, txz + twy>>,
           <<txy + twz, SCALE - (txx + tzz), tyz - twx>>,
           <<txz - twy, tyz + twx, SCALE - (txx + tyy)>> >>

\* Eigen::Matrix4d::Identity(), l.118
Identity4 ==
    << <<SCALE, 0, 0, 0>>, <<0, SCALE, 0, 0>>, <<0, 0, SCALE, 0>>, <<0, 0, 0, SCALE>> >>

\* only the translation written: the rotation block keeps what H held
SetBlocksTranslationOnly(H, R, p) ==
    [j \in 1..4 |->
        IF j <= 3 THEN <<H[j][1], H[j][2], H[j][3], p[j]>> ELSE H[j]]

\* H.block<3,3>(0,0) = R; H.block<3,1>(0,3) = p;  l.128-129
SetBlocks(H, R, p) ==
    [j \in 1..4 |->
        IF j <= 3 THEN <<R[j][1], R[j][2], R[j][3], p[j]>> ELSE H[j]]

\* ------------------------------------------------------ the IMU record
\* true when every token of m at the indices lo..hi converts with stod
AllStod(m, lo, hi) == \A i \in lo..hi : stod(At(m, i)).ok

\* the sample read one token early, from measurement[1..6]
ParseImuShifted(m) == [k \in 1..6 |-> stod(At(m, k)).val]

\* imu_measurement << stod(measurement[2]), ..., stod(measurement[7]); l.82-87
ParseImu(m) == [k \in 1..6 |-> stod(At(m, k + 1)).val]

\* The coefficients already written when a later stod throws: the first n
\* of the new sample over the rest of the old one.
PartialImu(m, old, n) ==
    [k \in 1..6 |-> IF k <= n THEN stod(At(m, k + 1)).val ELSE old[k]]

\* index (1..6) of the first payload token stod rejects, 7 when there is none
FirstBadImu(m) ==
    IF AllStod(m, 2, 7) THEN 7
    ELSE CHOOSE k \in 1..6 : ~stod(At(m, k + 1)).ok /\ AllStod(m, 2, k)

\* the gate with its bounds admitted
GateInclusive(d) == d >= DT_MIN /\ d <= DT_MAX

\* dt > DT_MIN && dt < DT_MAX, l.91
Gate(d) == d > DT_MIN /\ d < DT_MAX

\* --------------------------------------------------- the CONTACT record
\* for (int i=2; i<measurement.size(); i+=2), l.104-108
\* the indicator converted as an integer: a fractional indicator is false
RECURSIVE ContactLoopTruncating(_, _, _)
ContactLoopTruncating(m, i, contacts) ==
    IF ~(i < Len(m)) THEN [status |-> "ok", contacts |-> contacts]
    ELSE IF ~stoi(At(m, i)).ok THEN [status |-> "throw", contacts |-> contacts]
    ELSE IF ~(i + 1 < Len(m)) THEN [status |-> "oob", contacts |-> contacts]
    ELSE IF ~stoi(At(m, i + 1)).ok THEN [status |-> "throw", contacts |-> contacts]
    ELSE ContactLoopTruncating(m, i + 2,
             Append(contacts, <<stoi(At(m, i)).val, stoi(At(m, i + 1)).val # 0>>))

\* the loop bound taken as i <= measurement.size()
RECURSIVE ContactLoopOffByOne(_, _, _)
ContactLoopOffByOne(m, i, contacts) ==
    IF ~(i <= Len(m)) THEN [status |-> "ok", contacts |-> contacts]
    ELSE IF ~(i < Len(m)) THEN [status |-> "oob", contacts |-> contacts]
    ELSE IF ~stoi(At(m, i)).ok THEN [status |-> "throw", contacts |-> contacts]
    ELSE IF ~(i + 1 < Len(m)) THEN [status |-> "oob", contacts |-> contacts]
    ELSE IF ~stod(At(m, i + 1)).ok THEN [status |-> "throw", contacts |-> contacts]
    ELSE ContactLoopOffByOne(m, i + 2,
             Append(contacts, <<stoi(At(m, i)).val, stod(At(m, i + 1)).val # 0>>))

\* The result's status is "ok", "throw" (a conversion threw) or "oob"
\* (measurement[] was indexed past its end, which is undefined behaviour).
RECURSIVE ContactLoop(_, _, _)
ContactLoop(m, i, contacts) ==
    IF ~(i < Len(m)) THEN [status |-> "ok", contacts |-> contacts]
    ELSE IF ~stoi(At(m, i)).ok THEN [status |-> "throw", contacts |-> contacts]
    ELSE IF ~(i + 1 < Len(m)) THEN [status |-> "oob", contacts |-> contacts]
    ELSE IF ~stod(At(m, i + 1)).ok THEN [status |-> "throw", contacts |-> contacts]
    ELSE ContactLoop(m, i + 2,
                     Append(contacts, <<stoi(At(m, i)).val, stod(At(m, i + 1)).val # 0>>))

\* ------------------------------------------------- the KINEMATIC record
\* the covariance indexed without the entry's offset i
ParseCovFirstEntry(m, i) ==
    [j \in 1..6 |-> [k \in 1..6 |-> stod(At(m, 2 + 8 + (j - 1) * 6 + (k - 1))).val]]

\* the covariance filled column by column
ParseCovColumnMajor(m, i) ==
    [j \in 1..6 |-> [k \in 1..6 |-> stod(At(m, i + 8 + (k - 1) * 6 + (j - 1))).val]]

\* Cov(j,k) = stod(measurement[i+8 + j*6+k]), l.130-134
ParseCov(m, i) ==
    [j \in 1..6 |-> [k \in 1..6 |-> stod(At(m, i + 8 + (j - 1) * 6 + (k - 1))).val]]

\* one pass of the loop body, l.124-135: the entry pushed and the new H
KinematicEntry(m, i, H) ==
    LET id == stoi(At(m, i)).val
        q == normalize([w |-> stod(At(m, i + 1)).val, x |-> stod(At(m, i + 2)).val,
                        y |-> stod(At(m, i + 3)).val, z |-> stod(At(m, i + 4)).val])
        p == <<stod(At(m, i + 5)).val, stod(At(m, i + 6)).val, stod(At(m, i + 7)).val>>
        H2 == SetBlocks(H, toRotationMatrix(q), p)
    IN  [id |-> id, H |-> H2, Cov |-> ParseCov(m, i)]

\* for (int i=2; i<measurement.size(); i+=44), l.123-136
RECURSIVE KinematicLoop(_, _, _, _)
KinematicLoop(m, i, H, measured_kinematics) ==
    LET last == IF i + 43 < Len(m) THEN i + 43 ELSE Len(m) - 1
    IN  IF ~(i < Len(m))
        THEN [status |-> "ok", measured_kinematics |-> measured_kinematics]
        ELSE IF ~stoi(At(m, i)).ok \/ ~AllStod(m, i + 1, last)
        THEN [status |-> "throw", measured_kinematics |-> measured_kinematics]
        ELSE IF last < i + 43
        THEN [status |-> "oob", measured_kinematics |-> measured_kinematics]
        ELSE LET e == KinematicEntry(m, i, H)
             IN  KinematicLoop(m, i + 44, e.H, Append(measured_kinematics, e))

\* ------------------------------------------------------ the filter's calls
\* the sample just parsed passed instead of the held one
PropagateCallCurrent(imu_prev, imu_cur, d, n) ==
    [op |-> "Propagate", line |-> n, sample |-> imu_cur, dt |-> d,
     contacts |-> <<>>, kinematics |-> <<>>]

\* filter.Propagate(imu_measurement_prev, dt), l.92
PropagateCall(imu_prev, imu_cur, d, n) ==
    [op |-> "Propagate", line |-> n, sample |-> imu_prev, dt |-> d,
     contacts |-> <<>>, kinematics |-> <<>>]

\* the contact branch calling the propagation instead
setContactsCallAsPropagate(contacts, n) ==
    [op |-> "Propagate", line |-> n, sample |-> Zero6, dt |-> 0,
     contacts |-> contacts, kinematics |-> <<>>]

\* filter.setContacts(contacts), l.110
setContactsCall(contacts, n) ==
    [op |-> "setContacts", line |-> n, sample |-> Zero6, dt |-> 0,
     contacts |-> contacts, kinematics |-> <<>>]

\* filter.CorrectKinematics(measured_kinematics), l.138
CorrectKinematicsCall(measured_kinematics, n) ==
    [op |-> "CorrectKinematics", line |-> n, sample |-> Zero6, dt |-> 0,
     contacts |-> <<>>, kinematics |-> measured_kinematics]

\* cout << filter.getState(), l.147
getStateCall(n) ==
    [op |-> "getState", line |-> n, sample |-> Zero6, dt |-> 0,
     contacts |-> <<>>, kinematics |-> <<>>]

\* the previous timestamp never stored
StorePreviousNoTimestamp(tNow, imuNow) ==
    [t_prev |-> 0, imu_measurement_prev |-> imuNow]

\* t_prev = t; imu_measurement_prev = imu_measurement;  l.142-143
StorePrevious(tNow, imuNow) ==
    [t_prev |-> tNow, imu_measurement_prev |-> imuNow]


\* ------------------------------------------------------- the data file
\* The lines a data file is made of.  They are written token by token and
\* joined with single spaces, as the file format has them.
RECURSIVE Join(_)
Join(toks) ==
    IF Len(toks) = 0 THEN <<>>
    ELSE IF Len(toks) = 1 THEN toks[1]
    ELSE LET mid == Len(toks) \div 2
         IN  Join(SubSeq(toks, 1, mid)) \o <<" ">> \o Join(SubSeq(toks, mid + 1, Len(toks)))

RECURSIVE Decimal(_)
Decimal(n) ==
    IF n < 10 THEN <<Digits[n + 1]>>
    ELSE Decimal(n \div 10) \o <<Digits[(n % 10) + 1]>>

RECURSIVE Flatten(_)
Flatten(ss) == IF Len(ss) = 0 THEN <<>> ELSE ss[1] \o Flatten(Tail(ss))

Tok0 == <<"0">>
Tok1 == <<"1">>
Tok2 == <<"2">>
TokHalf == <<"0", ".", "5">>
TokDtMin == <<"0", ".", "0", "0", "0", "0", "0", "1">>
TokAboveDtMin == <<"0", ".", "0", "0", "0", "0", "0", "2">>
TokPrefix == <<"0", ".", "1", "x">>
TokWord == <<"a", "b", "c">>
TokGravity == <<"9", ".", "8", "1">>

SampleA == <<Tok1, Tok2, <<"3">>, <<"4">>, <<"5">>, <<"6">> >>
SampleB == <<Tok0, Tok0, Tok0, Tok0, Tok0, TokGravity>>

ImuLine(ts, payload) == Join(<<IMU, ts>> \o payload)

ImuLines ==
    << ImuLine(TokDtMin, SampleA),
       ImuLine(TokAboveDtMin, SampleA),
       ImuLine(Tok1, SampleA),
       ImuLine(Tok2, SampleA),
       ImuLine(TokHalf, SampleB) >>

BadImuLines ==
    << IMU,
       ImuLine(TokHalf, SampleA \o <<Tok1>>),
       ImuLine(TokWord, <<Tok1>>),
       ImuLine(TokWord, SampleA),
       ImuLine(TokHalf, <<Tok1, Tok2, TokWord, Tok1, Tok2, Tok1>>),
       Join(<<IMU, <<>>, TokHalf, Tok1, Tok2, Tok1, Tok2, Tok1>>) >>

ContactLine(ts, payload) == Join(<<CONTACT, ts>> \o payload)

ContactLines ==
    << ContactLine(TokHalf, <<>>),
       ContactLine(Tok1, <<Tok0, Tok1, Tok1, Tok0>>),
       ContactLine(Tok2, <<<<"7">>, TokHalf, <<"-", "3">>, TokPrefix>>) >>

BadContactLines ==
    << CONTACT,
       ContactLine(Tok1, <<Tok0>>),
       ContactLine(Tok1, <<Tok0, Tok1, TokWord, Tok1>>) >>

\* the quaternion tokens of generated entry k: 1 0 0 0, 0 2 0 0, 1 1 1 1
QuatTokens(k) ==
    IF k % 3 = 1 THEN <<Tok1, Tok0, Tok0, Tok0>>
    ELSE IF k % 3 = 2 THEN <<Tok0, Tok2, Tok0, Tok0>>
    ELSE <<Tok1, Tok1, Tok1, Tok1>>

\* the 44 tokens of generated entry k: id k, position k k+1 k+2 and the
\* covariance values 100(k-1) .. 100(k-1)+35
EntryTokens(k) ==
    <<Decimal(k)>> \o QuatTokens(k)
        \o <<Decimal(k), Decimal(k + 1), Decimal(k + 2)>>
        \o [j \in 1..36 |-> Decimal(100 * (k - 1) + j - 1)]

KinematicLine(ts, ks) ==
    Join(<<KINEMATIC, ts>> \o Flatten([e \in 1..Len(ks) |-> EntryTokens(ks[e])]))

\* records of 0, 1, ..., MaxEntries entries
KinematicLines ==
    [n \in 1..(MaxEntries + 1) |-> KinematicLine(TokHalf, [e \in 1..(n - 1) |-> e])]

\* a generated line with its last token replaced by tok
WithLastToken(ln, tok) ==
    LET m == split(ln) IN Join(SubSeq(m, 1, Len(m) - 1) \o <<tok>>)

BadKinematicLines ==
    << KINEMATIC,
       Join(<<KINEMATIC, Tok1>> \o SubSeq(EntryTokens(1), 1, 43)),
       WithLastToken(KinematicLine(TokHalf, <<1, 2>>), TokWord) >>

UnknownLines ==
    << <<>>, Join(<< <<"G", "P", "S">>, <<"5">>, Tok1>>) >>

\* The lines a data file may hold, each known by its position in this list.
Lines ==
    ImuLines \o BadImuLines \o ContactLines \o BadContactLines
        \o KinematicLines \o BadKinematicLines \o UnknownLines

\* boost::split(measurement, line, boost::is_any_of(" ")), l.74-75, for each
\* line of the list (the table is computed once)
Tokens == [k \in DOMAIN Lines |-> split(Lines[k])]

\* ------------------------------------------- the indices of measurement[]
\* the indices a loop for (int i = from; i < measurement.size(); i += step)
\* reads when its body reads measurement[i], ..., measurement[i + step - 1]
RECURSIVE LoopIndices(_, _, _)
LoopIndices(m, i, step) ==
    IF ~(i < Len(m)) THEN {}
    ELSE (i..(i + step - 1)) \cup LoopIndices(m, i + step, step)

\* The indices of measurement[] that handling the split line m reads when no
\* conversion throws (one that throws ends the reads early): index 0 for the
\* tag, l.77, l.96, l.112; nothing more when the assert of the branch fails;
\* otherwise index 1 (l.80, l.102, l.121) and the payload reads of l.82-87,
\* l.104-107 or l.123-133.
IndicesRead(m) ==
    IF compare(At(m, 0), IMU)
    THEN (IF PayloadLen(m) # U64(6) THEN {0} ELSE 0..7)
    ELSE IF compare(At(m, 0), CONTACT)
    THEN (IF ModU64(PayloadLen(m), 2) # 0 THEN {0} ELSE {0, 1} \cup LoopIndices(m, 2, 2))
    ELSE IF compare(At(m, 0), KINEMATIC)
    THEN (IF ModU64(PayloadLen(m), 44) # 0 THEN {0} ELSE {0, 1} \cup LoopIndices(m, 2, 44))
    ELSE {0}

\* What the branches compute from a line depends on the line alone; it is
\* tabulated once for each line of the list.
\* stod(measurement[1]), l.80, l.102, l.121
Timestamps ==
    [k \in DOMAIN Lines |->
        IF Len(Tokens[k]) >= 2 THEN stod(At(Tokens[k], 1)) ELSE [ok |-> FALSE, val |-> 0]]

\* the six conversions of l.82-87, for the lines that have tokens 2..7
ImuPayloads ==
    [k \in DOMAIN Lines |->
        IF Len(Tokens[k]) >= 8
        THEN [bad |-> FirstBadImu(Tokens[k]), sample |-> ParseImu(Tokens[k])]
        ELSE [bad |-> 0, sample |-> Zero6]]

\* the loop of l.104-108 run from i = 2 with contacts empty
ContactLoops == [k \in DOMAIN Lines |-> ContactLoop(Tokens[k], 2, <<>>)]

\* the loop of l.123-136 run from i = 2 with H the identity of l.118
KinematicLoops == [k \in DOMAIN Lines |-> KinematicLoop(Tokens[k], 2, Identity4, <<>>)]

\* ---------------------------------------------------------------- state
VARIABLES
    unread,                 \* lines of infile that getline has not yet returned
    consumed,               \* the lines getline has returned, in file order,
                            \* each as its position in Lines
    t,                      \* double t, l.69
    t_prev,                 \* double t_prev, l.70
    imu_measurement,        \* l.67
    imu_measurement_prev,   \* l.68
    calls,                  \* the calls the filter has received, in order
    pc                      \* "ReadNextLine", "Done", or how the program died:
                            \* "MalformedRecordError", "NumericParseError",
                            \* "UndefinedBehaviour"

vars == <<unread, consumed, t, t_prev, imu_measurement, imu_measurement_prev, calls, pc>>

\* the previous sample starting at rest under gravity instead of at zero
InitGravitySample ==
    /\ unread \in 0..MaxLines
    /\ consumed = <<>>
    /\ t = 0
    /\ t_prev = 0
    /\ imu_measurement = Zero6
    /\ imu_measurement_prev = <<0, 0, 0, 0, 0, 9810000>>
    /\ calls = <<>>
    /\ pc = "ReadNextLine"

Init ==
    /\ unread \in 0..MaxLines
    /\ consumed = <<>>
    /\ t = 0
    /\ t_prev = 0
    /\ imu_measurement = Zero6
    /\ imu_measurement_prev = Zero6
    /\ calls = <<>>
    /\ pc = "ReadNextLine"

\* while (getline(infile, line)) returns the next line, l.73
GetLine(k) ==
    /\ pc = "ReadNextLine"
    /\ unread > 0
    /\ unread' = unread - 1
    /\ consumed' = Append(consumed, k)

\* assert fails: the program aborts inside the branch
Abort ==
    /\ pc' = "MalformedRecordError"
    /\ UNCHANGED <<t, t_prev, imu_measurement, imu_measurement_prev, calls>>

\* std::invalid_argument leaves stod or stoi and nothing catches it
Throw ==
    /\ pc' = "NumericParseError"
    /\ UNCHANGED <<t_prev, imu_measurement_prev, calls>>

\* measurement[] is indexed past its end: anything may follow
OutOfRange ==
    /\ pc' = "UndefinedBehaviour"
    /\ UNCHANGED <<t, t_prev, imu_measurement, imu_measurement_prev, calls>>

\* l.77-95 and l.141-143
HandleIMU(k) ==
    LET measurement == Tokens[k]
        ts == Timestamps[k]
        bad == ImuPayloads[k].bad
        sample == ImuPayloads[k].sample
        dt == ts.val - t_prev
        stored == StorePrevious(ts.val, sample)
    IN  /\ GetLine(k)
        /\ compare(At(measurement, 0), IMU)
        /\ IF PayloadLen(measurement) # U64(6) THEN Abort
           ELSE IF Len(measurement) < 8 THEN OutOfRange
           ELSE IF ~ts.ok THEN Throw /\ UNCHANGED <<t, imu_measurement>>
           ELSE IF bad <= 6
           THEN /\ Throw
                /\ t' = ts.val
                /\ \E n \in 0..(bad - 1) :
                      imu_measurement' = PartialImu(measurement, imu_measurement, n)
           ELSE /\ t' = ts.val
                /\ imu_measurement' = sample
                /\ calls' = IF Gate(dt)
                            THEN Append(calls, PropagateCall(imu_measurement_prev, sample,
                                                             dt, Len(consumed) + 1))
                            ELSE calls
                /\ t_prev' = stored.t_prev
                /\ imu_measurement_prev' = stored.imu_measurement_prev
                /\ pc' = pc

\* the CONTACT branch with its timestamp kept out of t_prev, so that dt is
\* measured from the record before it
HandleCONTACTTimestampNotStored(k) ==
    LET measurement == Tokens[k]
        ts == Timestamps[k]
        loop == ContactLoops[k]
    IN  /\ GetLine(k)
        /\ ~compare(At(measurement, 0), IMU)
        /\ compare(At(measurement, 0), CONTACT)
        /\ IF ModU64(PayloadLen(measurement), 2) # 0 THEN Abort
           ELSE IF Len(measurement) < 2 THEN OutOfRange
           ELSE IF ~ts.ok THEN Throw /\ UNCHANGED <<t, imu_measurement>>
           ELSE IF loop.status = "throw"
           THEN Throw /\ t' = ts.val /\ UNCHANGED imu_measurement
           ELSE IF loop.status = "oob" THEN OutOfRange
           ELSE /\ t' = ts.val
                /\ calls' = Append(calls, setContactsCall(loop.contacts, Len(consumed) + 1))
                /\ imu_measurement_prev' = imu_measurement
                /\ UNCHANGED <<t_prev, imu_measurement, pc>>

\* l.96-111 and l.141-143
HandleCONTACT(k) ==
    LET measurement == Tokens[k]
        ts == Timestamps[k]
        loop == ContactLoops[k]
        stored == StorePrevious(ts.val, imu_measurement)
    IN  /\ GetLine(k)
        /\ ~compare(At(measurement, 0), IMU)
        /\ compare(At(measurement, 0), CONTACT)
        /\ IF ModU64(PayloadLen(measurement), 2) # 0 THEN Abort
           ELSE IF Len(measurement) < 2 THEN OutOfRange
           ELSE IF ~ts.ok THEN Throw /\ UNCHANGED <<t, imu_measurement>>
           ELSE IF loop.status = "throw"
           THEN Throw /\ t' = ts.val /\ UNCHANGED imu_measurement
           ELSE IF loop.status = "oob" THEN OutOfRange
           ELSE /\ t' = ts.val
                /\ calls' = Append(calls, setContactsCall(loop.contacts, Len(consumed) + 1))
                /\ t_prev' = stored.t_prev
                /\ imu_measurement_prev' = stored.imu_measurement_prev
                /\ UNCHANGED <<imu_measurement, pc>>

\* l.112-139 and l.141-143
HandleKINEMATIC(k) ==
    LET measurement == Tokens[k]
        ts == Timestamps[k]
        loop == KinematicLoops[k]
        stored == StorePrevious(ts.val, imu_measurement)
    IN  /\ GetLine(k)
        /\ ~compare(At(measurement, 0), IMU)
        /\ ~compare(At(measurement, 0), CONTACT)
        /\ compare(At(measurement, 0), KINEMATIC)
        /\ IF ModU64(PayloadLen(measurement), 44) # 0 THEN Abort
           ELSE IF Len(measurement) < 2 THEN OutOfRange
           ELSE IF ~ts.ok THEN Throw /\ UNCHANGED <<t, imu_measurement>>
           ELSE IF loop.status = "throw"
           THEN Throw /\ t' = ts.val /\ UNCHANGED imu_measurement
           ELSE IF loop.status = "oob" THEN OutOfRange
           ELSE /\ t' = ts.val
                /\ calls' = Append(calls, CorrectKinematicsCall(loop.measured_kinematics,
                                                                Len(consumed) + 1))
                /\ t_prev' = stored.t_prev
                /\ imu_measurement_prev' = stored.imu_measurement_prev
                /\ UNCHANGED <<imu_measurement, pc>>

\* no branch is taken, l.77, l.96, l.112; then l.141-143
HandleUnknown(k) ==
    LET measurement == Tokens[k]
        stored == StorePrevious(t, imu_measurement)
    IN  /\ GetLine(k)
        /\ ~compare(At(measurement, 0), IMU)
        /\ ~compare(At(measurement, 0), CONTACT)
        /\ ~compare(At(measurement, 0), KINEMATIC)
        /\ t_prev' = stored.t_prev
        /\ imu_measurement_prev' = stored.imu_measurement_prev
        /\ UNCHANGED <<t, imu_measurement, calls, pc>>

\* the end of the file never noticed: the loop spins on the exhausted stream
EndOfStreamUnnoticed ==
    /\ pc = "ReadNextLine"
    /\ unread = 0
    /\ UNCHANGED vars

\* getline fails at the end of the file; l.146-148
EndOfStream ==
    /\ pc = "ReadNextLine"
    /\ unread = 0
    /\ calls' = Append(calls, getStateCall(Len(consumed)))
    /\ pc' = "Done"
    /\ UNCHANGED <<unread, consumed, t, t_prev, imu_measurement, imu_measurement_prev>>

\* One pass of the loop body, l.73-144, is one of the four handlers.
Next ==
    \/ \E k \in DOMAIN Lines : HandleIMU(k)
    \/ \E k \in DOMAIN Lines : HandleCONTACT(k)
    \/ \E k \in DOMAIN Lines : HandleKINEMATIC(k)
    \/ \E k \in DOMAIN Lines : HandleUnknown(k)
    \/ EndOfStream

Spec == Init /\ [][Next]_vars

\* The program is one sequential thread: while it has not ended or died its
\* next statement is executed, so a step that can be taken is taken.
FairSpec == Init /\ [][Next]_vars /\ WF_vars(Next)


\* =================================================================== claims
\* What the claims speak of, read off the lines and the calls themselves.
FilterOps == {"Propagate", "setContacts", "CorrectKinematics"}

\* the tokens of the n-th line of the file
TokensOfLine(n) == Tokens[consumed[n]]

\* the filter calls made while line n was handled
CallsOf(n) == {i \in DOMAIN calls : calls[i].line = n /\ calls[i].op \in FilterOps}

\* this step reads a line; NewTokens are its tokens
ReadsLine == Len(consumed') = Len(consumed) + 1

NewTokens == Tokens[consumed'[Len(consumed')]]

\* this step makes exactly one filter call, of kind op, after those made so far
InvokedNow(op) ==
    /\ Len(calls') = Len(calls) + 1
    /\ SubSeq(calls', 1, Len(calls)) = calls
    /\ calls'[Len(calls')].op = op

IsWellFormedImu(m) ==
    Len(m) = 8 /\ m[1] = IMU /\ \A i \in 2..8 : stod(m[i]).ok

SampleOf(m) ==
    <<stod(m[3]).val, stod(m[4]).val, stod(m[5]).val,
      stod(m[6]).val, stod(m[7]).val, stod(m[8]).val>>

\* ---------------------------------------------------------------------- C1
\* C1: for every well-formed IMU record, with dt the record's timestamp minus
\* the previous timestamp, Propagate is invoked while the record is handled
\* if and only if 1e-6 < dt < 1 (so not at dt = 0, 1e-6, 1, negative, > 1).
C1_GateAdmitsIffInside ==
    [][ReadsLine /\ IsWellFormedImu(NewTokens)
        => LET dt == stod(NewTokens[2]).val - t_prev
           IN  IF DT_MIN < dt /\ dt < DT_MAX
               THEN InvokedNow("Propagate")
               ELSE calls' = calls]_vars

\* Two IMU records: the first at dt = 1e-6 is refused, the second at
\* dt = 0.999999 is admitted.
C1_Witness ==
    /\ pc = "ReadNextLine"
    /\ Len(consumed) = 2
    /\ IsWellFormedImu(TokensOfLine(1))
    /\ IsWellFormedImu(TokensOfLine(2))
    /\ stod(TokensOfLine(1)[2]).val = DT_MIN
    /\ Len(calls) = 1
    /\ calls[1].op = "Propagate"
    /\ calls[1].line = 2
    /\ calls[1].dt = DT_MAX - DT_MIN

\* ---------------------------------------------------------------------- C2
\* the IMU records among the first n lines
ImuLinesUpTo(n) == {k \in 1..n : TokensOfLine(k)[1] = IMU}

\* the payload of the most recent IMU record among the lines read so far, or
\* the all-zero vector when there is none
HeldSample ==
    LET ks == ImuLinesUpTo(Len(consumed))
    IN  IF ks = {} THEN Zero6
        ELSE SampleOf(TokensOfLine(CHOOSE k \in ks : \A j \in ks : j <= k))

\* C2 as stated: whenever Propagate is invoked for an IMU record, its sample
\* is the payload of the most recent earlier IMU record and its dt is the dt
\* of the gate.
C2_SampleIsEarlierImuRecord ==
    [][InvokedNow("Propagate")
        => /\ ImuLinesUpTo(Len(consumed)) # {}
           /\ calls'[Len(calls')].sample = HeldSample
           /\ calls'[Len(calls')].dt = stod(NewTokens[2]).val - t_prev]_vars

\* C2 amended: whenever Propagate is invoked for an IMU record, its sample is
\* the held sample (the payload of the most recent earlier IMU record, or
\* the all-zero vector when no IMU record came before) and its dt is the dt
\* of the gate.
C2_SampleIsHeldSample ==
    [][InvokedNow("Propagate")
        => /\ calls'[Len(calls')].sample = imu_measurement_prev
           /\ calls'[Len(calls')].sample = HeldSample
           /\ calls'[Len(calls')].dt = stod(NewTokens[2]).val - t_prev]_vars

\* IMU, CONTACT, IMU: the first Propagate gets the all-zero vector, the
\* second the payload of line 1, which differs from the one just parsed.
C2_Witness ==
    /\ Len(consumed) = 3
    /\ Len(calls) = 3
    /\ calls[1].op = "Propagate"
    /\ calls[1].sample = Zero6
    /\ calls[2].op = "setContacts"
    /\ calls[3].op = "Propagate"
    /\ calls[3].line = 3
    /\ calls[3].sample = SampleOf(TokensOfLine(1))
    /\ calls[3].sample # SampleOf(TokensOfLine(3))

\* ---------------------------------------------------------------------- C3
\* a CONTACT record with an even payload whose tokens all convert
IsParsedContact(m) ==
    /\ Len(m) >= 2
    /\ m[1] = CONTACT
    /\ (Len(m) - 2) % 2 = 0
    /\ stod(m[2]).ok
    /\ \A j \in 1..((Len(m) - 2) \div 2) : stoi(m[2 * j + 1]).ok /\ stod(m[2 * j + 2]).ok

\* its n (id, indicator) pairs in input order
PairsOf(m) ==
    [j \in 1..((Len(m) - 2) \div 2) |-> <<stoi(m[2 * j + 1]).val, stod(m[2 * j + 2]).val # 0>>]

\* the positions in Lines of the parsed CONTACT records
ParsedContactLines == {k \in DOMAIN Lines : IsParsedContact(Tokens[k])}

\* C3: every CONTACT record with payload length 2n causes exactly one
\* setContacts call, whatever its timestamp, with exactly its n pairs in
\* input order, an indicator being true iff its token is non-zero; after it
\* the filter has last received that record's set and nothing else.
C3_ContactsForwardedVerbatim ==
    \A n \in 1..Len(consumed) :
        consumed[n] \in ParsedContactLines
        => /\ Cardinality(CallsOf(n)) = 1
           /\ \A i \in CallsOf(n) :
                /\ calls[i].op = "setContacts"
                /\ calls[i].contacts = PairsOf(TokensOfLine(n))
                /\ Len(calls[i].contacts) = (Len(TokensOfLine(n)) - 2) \div 2
                /\ (n = Len(consumed) /\ pc = "ReadNextLine") => i = Len(calls)

\* Two CONTACT records in a row with different sets, the second being
\* [(0,true),(1,false)].
C3_Witness ==
    /\ pc = "ReadNextLine"
    /\ Len(consumed) >= 2
    /\ consumed[Len(consumed) - 1] \in ParsedContactLines
    /\ consumed[Len(consumed)] \in ParsedContactLines
    /\ Len(calls) >= 2
    /\ calls[Len(calls)].op = "setContacts"
    /\ calls[Len(calls)].contacts = << <<0, TRUE>>, <<1, FALSE>> >>
    /\ calls[Len(calls) - 1].op = "setContacts"
    /\ calls[Len(calls) - 1].contacts = << <<7, TRUE>>, <<-3, TRUE>> >>

\* ---------------------------------------------------------------------- C4
\* a KINEMATIC record with a payload of 44n tokens that all convert
IsParsedKinematic(m) ==
    /\ Len(m) >= 2
    /\ m[1] = KINEMATIC
    /\ (Len(m) - 2) % 44 = 0
    /\ stod(m[2]).ok
    /\ \A e \in 1..((Len(m) - 2) \div 44) :
          /\ stoi(m[44 * (e - 1) + 3]).ok
          /\ \A o \in 1..43 : stod(m[44 * (e - 1) + 3 + o]).ok

\* the entry that the e-th 44-token block of m describes
EntryOfBlock(m, e) ==
    LET b == 44 * (e - 1) + 3      \* position of the block's first token
        q == normalize([w |-> stod(m[b + 1]).val, x |-> stod(m[b + 2]).val,
                        y |-> stod(m[b + 3]).val, z |-> stod(m[b + 4]).val])
        R == toRotationMatrix(q)
    IN  [id |-> stoi(m[b]).val,
         H |-> << <<R[1][1], R[1][2], R[1][3], stod(m[b + 5]).val>>,
                  <<R[2][1], R[2][2], R[2][3], stod(m[b + 6]).val>>,
                  <<R[3][1], R[3][2], R[3][3], stod(m[b + 7]).val>>,
                  <<0, 0, 0, SCALE>> >>,
         Cov |-> [j \in 1..6 |-> [k \in 1..6 |->
                    stod(m[b + 8 + (j - 1) * 6 + (k - 1)]).val]]]

\* for each parsed KINEMATIC record of Lines, the entries of its blocks in
\* input order; the empty list for every other line
EntriesOfLine ==
    [k \in DOMAIN Lines |->
        IF IsParsedKinematic(Tokens[k])
        THEN [e \in 1..((Len(Tokens[k]) - 2) \div 44) |-> EntryOfBlock(Tokens[k], e)]
        ELSE <<>>]

ParsedKinematicLines == {k \in DOMAIN Lines : IsParsedKinematic(Tokens[k])}

\* C4: every KINEMATIC record with payload length 44n causes exactly one
\* CorrectKinematics call, whatever its timestamp, with exactly n entries,
\* the i-th built from the i-th 44-token block, in input order.
C4_KinematicsForwardedInOrder ==
    \A n \in 1..Len(consumed) :
        consumed[n] \in ParsedKinematicLines
        => /\ Cardinality(CallsOf(n)) = 1
           /\ \A i \in CallsOf(n) :
                /\ calls[i].op = "CorrectKinematics"
                /\ Len(calls[i].kinematics) = (Len(TokensOfLine(n)) - 2) \div 44
                /\ calls[i].kinematics = EntriesOfLine[consumed[n]]

\* A KINEMATIC record of two blocks was forwarded as two entries, ids 1, 2.
C4_Witness ==
    /\ Len(consumed) >= 1
    /\ consumed[Len(consumed)] \in ParsedKinematicLines
    /\ Len(TokensOfLine(Len(consumed))) = 90
    /\ Len(calls) >= 1
    /\ calls[Len(calls)].op = "CorrectKinematics"
    /\ calls[Len(calls)].line = Len(consumed)
    /\ Len(calls[Len(calls)].kinematics) = 2
    /\ calls[Len(calls)].kinematics[1].id = 1
    /\ calls[Len(calls)].kinematics[2].id = 2
    /\ calls[Len(calls)].kinematics[2].Cov[1][1] = 100 * SCALE

\* ---------------------------------------------------------------------- C5
\* the filter operation a tag stands for
OpOfTag(tag) ==
    IF tag = IMU THEN "Propagate"
    ELSE IF tag = CONTACT THEN "setContacts"
    ELSE IF tag = KINEMATIC THEN "CorrectKinematics"
    ELSE "none"

\* C5: the filter operations are in the arrival order of the records that
\* caused them: each was made for a line already read, each line causes at
\* most one, later operations belong to later lines, and the kind of an
\* operation is the one its line's tag stands for.
C5_CallsInArrivalOrder ==
    /\ \A i \in DOMAIN calls :
          calls[i].op \in FilterOps
          => /\ calls[i].line \in 1..Len(consumed)
             /\ calls[i].op = OpOfTag(TokensOfLine(calls[i].line)[1])
    /\ \A i, j \in DOMAIN calls :
          (i < j /\ calls[i].op \in FilterOps /\ calls[j].op \in FilterOps)
          => calls[i].line < calls[j].line
    /\ \A i \in DOMAIN calls : calls[i].op = "getState" => i = Len(calls)

\* IMU, CONTACT, KINEMATIC caused Propagate, setContacts, CorrectKinematics.
C5_Witness ==
    /\ Len(consumed) = 3
    /\ Len(calls) = 3
    /\ calls[1].op = "Propagate" /\ calls[1].line = 1
    /\ calls[2].op = "setContacts" /\ calls[2].line = 2
    /\ calls[3].op = "CorrectKinematics" /\ calls[3].line = 3


\* ---------------------------------------------------------------------- C6
\* C6: after any well-formed IMU record has been handled, admitted by the
\* gate or not, the previous-sample cache equals the sample of that record.
C6_CacheHoldsLastImuSample ==
    (Len(consumed) >= 1 /\ IsWellFormedImu(TokensOfLine(Len(consumed))))
    => /\ pc \in {"ReadNextLine", "Done"}
       /\ imu_measurement_prev = SampleOf(TokensOfLine(Len(consumed)))

\* Two IMU records with the same timestamp: the second is refused (dt = 0)
\* and the cache still holds its sample.
C6_Witness ==
    /\ pc = "ReadNextLine"
    /\ Len(consumed) = 2
    /\ IsWellFormedImu(TokensOfLine(1))
    /\ IsWellFormedImu(TokensOfLine(2))
    /\ stod(TokensOfLine(1)[2]).val = stod(TokensOfLine(2)[2]).val
    /\ CallsOf(2) = {}
    /\ imu_measurement_prev = <<0, 0, 0, 0, 0, 9810000>>

\* ---------------------------------------------------------------------- C7
IsRecognized(m) == m[1] \in {IMU, CONTACT, KINEMATIC}

\* C7 as stated: after any record has been handled, of a recognized type or
\* not, the previous timestamp equals the record's timestamp field token[1]
\* (stated for the records that have such a field, and it a number).
C7_PreviousTimestampIsToken1 ==
    (pc = "ReadNextLine" /\ Len(consumed) >= 1)
    => LET m == TokensOfLine(Len(consumed))
       IN  (Len(m) >= 2 /\ stod(m[2]).ok) => t_prev = stod(m[2]).val

\* C7 amended: after a record of a recognized type (IMU, CONTACT, KINEMATIC)
\* has been handled the previous timestamp equals its timestamp field; a
\* record with an unrecognized tag leaves the previous timestamp unchanged.
C7_PreviousTimestampOfRecognized ==
    [][(ReadsLine /\ pc' = "ReadNextLine")
        => IF IsRecognized(NewTokens)
           THEN t_prev' = stod(NewTokens[2]).val
           ELSE t_prev' = t_prev]_vars

\* A record at 0.5 followed by an unrecognized line whose token[1] is 5:
\* the previous timestamp is still 0.5.
C7_Witness ==
    /\ pc = "ReadNextLine"
    /\ Len(consumed) = 2
    /\ IsRecognized(TokensOfLine(1))
    /\ ~IsRecognized(TokensOfLine(2))
    /\ Len(TokensOfLine(2)) >= 2
    /\ stod(TokensOfLine(2)[2]).val = 5 * SCALE
    /\ t_prev = stod(TokensOfLine(1)[2]).val
    /\ t_prev = SCALE \div 2

\* ---------------------------------------------------------------------- C8
\* the payload length Len(m) - 2 violates the arity of the record's type
ArityViolated(m) ==
    \/ m[1] = IMU /\ Len(m) - 2 # 6
    \/ m[1] = CONTACT /\ (Len(m) - 2) % 2 # 0
    \/ m[1] = KINEMATIC /\ (Len(m) - 2) % 44 # 0

\* C8: a record whose payload length violates its type's arity fails as a
\* malformed record, before any filter operation is invoked for it and
\* before the previous timestamp or the previous sample is changed.
C8_ArityViolationFailsFirst ==
    [][(ReadsLine /\ ArityViolated(NewTokens))
        => /\ pc' = "MalformedRecordError"
           /\ calls' = calls
           /\ t_prev' = t_prev
           /\ imu_measurement_prev' = imu_measurement_prev]_vars

\* After an admitted IMU record, a KINEMATIC record of 43 payload tokens
\* failed; the state is that left by the IMU record.
C8_Witness ==
    /\ pc = "MalformedRecordError"
    /\ Len(consumed) = 2
    /\ IsWellFormedImu(TokensOfLine(1))
    /\ TokensOfLine(2)[1] = KINEMATIC
    /\ Len(TokensOfLine(2)) = 45
    /\ Len(calls) = 1
    /\ calls[1].line = 1
    /\ t_prev = stod(TokensOfLine(1)[2]).val
    /\ imu_measurement_prev = SampleOf(TokensOfLine(1))

\* ---------------------------------------------------------------------- C9
\* C9: a line whose first token is none of IMU, CONTACT, KINEMATIC (the
\* empty line included) is a no-op: no filter operation, the previous-sample
\* cache unchanged, no failure, and the loop goes on to the next line.
C9_UnknownLineIsNoOp ==
    [][(ReadsLine /\ ~IsRecognized(NewTokens))
        => /\ calls' = calls
           /\ imu_measurement_prev' = imu_measurement_prev
           /\ pc' = "ReadNextLine"]_vars

\* An IMU record, then the empty line, then a line that is handled: the
\* empty line changed nothing and the loop went on.
C9_Witness ==
    /\ pc = "ReadNextLine"
    /\ Len(consumed) = 3
    /\ IsWellFormedImu(TokensOfLine(1))
    /\ Lines[consumed[2]] = <<>>
    /\ TokensOfLine(2) = << <<>> >>
    /\ CallsOf(2) = {}
    /\ CallsOf(3) # {}
    /\ imu_measurement_prev = SampleOf(TokensOfLine(1))
    /\ imu_measurement_prev # Zero6

\* --------------------------------------------------------------------- C10
\* the whole token is a number: stod converts all of it
IsNumericToken(s) == stod(s).ok /\ NumericPrefixLen(s) = Len(s)

\* C10: if a token that is expected to be numeric, in a record of a
\* recognized type (and of the right arity), is not numeric, the line fails
\* with a numeric-parse failure and no filter operation is invoked for it.
C10_NonNumericTokenFails ==
    Len(consumed) >= 1
    => LET m == TokensOfLine(Len(consumed))
       IN  (/\ IsRecognized(m)
            /\ ~ArityViolated(m)
            /\ \E i \in 2..Len(m) : ~IsNumericToken(m[i]))
           => /\ pc = "NumericParseError"
              /\ CallsOf(Len(consumed)) = {}

\* --------------------------------------------------------------------- C11
\* For each line with the KINEMATIC tag and each whole 44-token block e of
\* it, the matrix whose element (row j, column k), 0 <= j,k < 6, is the
\* value of the token at offset 8 + j*6 + k from the block's start.
RowMajorCovs ==
    [n \in DOMAIN Lines |->
        IF Tokens[n][1] = KINEMATIC
        THEN [e \in 1..((Len(Tokens[n]) - 2) \div 44) |->
                [j \in 0..5 |-> [k \in 0..5 |->
                    stod(At(Tokens[n], 2 + 44 * (e - 1) + 8 + j * 6 + k)).val]]]
        ELSE <<>>]

\* C11: for every kinematic entry handed to the filter, the 6x6 covariance
\* is filled row-major from the entry's tokens: element (row j, column k)
\* equals the token at offset 8 + j*6 + k from the entry's start.
C11_CovarianceRowMajor ==
    \A i \in DOMAIN calls :
        calls[i].op = "CorrectKinematics"
        => LET expected == RowMajorCovs[consumed[calls[i].line]]
           IN  /\ Len(calls[i].kinematics) <= Len(expected)
               /\ \A e \in DOMAIN calls[i].kinematics :
                    \A j, k \in 0..5 :
                        calls[i].kinematics[e].Cov[j + 1][k + 1] = expected[e][j][k]

\* An entry whose covariance tokens are 0..35 was forwarded: its element at
\* (row 2, column 3) is 15 and the one at (row 3, column 2) is 20.
C11_Witness ==
    /\ Len(calls) >= 1
    /\ calls[Len(calls)].op = "CorrectKinematics"
    /\ Len(calls[Len(calls)].kinematics) >= 1
    /\ \A v \in 0..35 :
          stod(At(TokensOfLine(calls[Len(calls)].line), 2 + 8 + v)).val = v * SCALE
    /\ calls[Len(calls)].kinematics[1].Cov[2 + 1][3 + 1] = 15 * SCALE
    /\ calls[Len(calls)].kinematics[1].Cov[3 + 1][2 + 1] = 20 * SCALE

\* --------------------------------------------------------------------- C12
\* the whole token is an integer: stoi converts all of it
IsIntegerToken(s) == stoi(s).ok /\ SignLen(s) + DigitRun(s, SignLen(s) + 1) = Len(s)

\* the source's index i of m holds a contact id or a kinematic entry id
IsIdIndex(m, i) ==
    \/ m[1] = CONTACT /\ i >= 2 /\ i % 2 = 0
    \/ m[1] = KINEMATIC /\ i >= 2 /\ (i - 2) % 44 = 0

\* the lines that are well-formed records (right arity, every field a
\* number, every id an integer) or carry an unrecognized tag
GoodLines ==
    {n \in DOMAIN Lines :
        LET m == Tokens[n]
        IN  \/ ~IsRecognized(m)
            \/ /\ ~ArityViolated(m)
               /\ Len(m) >= 2
               /\ \A i \in 1..(Len(m) - 1) :
                     IF IsIdIndex(m, i) THEN IsIntegerToken(At(m, i))
                     ELSE IsNumericToken(At(m, i))}

\* every line read so far is well-formed or unrecognized
WellFormedLog == \A n \in 1..Len(consumed) : consumed[n] \in GoodLines

\* C12: for every finite log of well-formed or unrecognized lines only, the
\* dispatcher handles each line exactly once in file order (each pass of the
\* loop takes the next unread line, and only that line, and stays in the
\* loop), eventually reaches the end of the stream and terminates, and
\* queries the filter's final state only after the last line has been
\* handled, with no Propagate, setContacts or CorrectKinematics call, nor any
\* other step, after that query.
C12_TerminatesAndQueriesLast ==
    /\ <>(pc = "Done" \/ ~WellFormedLog)
    /\ [][(pc = "ReadNextLine" /\ WellFormedLog')
            => IF unread > 0
               THEN /\ unread' = unread - 1
                    /\ Len(consumed') = Len(consumed) + 1
                    /\ SubSeq(consumed', 1, Len(consumed)) = consumed
                    /\ \A i \in DOMAIN calls' :
                          i > Len(calls)
                          => calls'[i].op \in FilterOps /\ calls'[i].line = Len(consumed')
                    /\ pc' = "ReadNextLine"
               ELSE /\ pc' = "Done"
                    /\ consumed' = consumed
                    /\ Len(calls') = Len(calls) + 1
                    /\ SubSeq(calls', 1, Len(calls)) = calls
                    /\ calls'[Len(calls')].op = "getState"]_vars
    /\ [](pc = "Done"
            => /\ unread = 0
               /\ Len(calls) >= 1
               /\ \A i \in DOMAIN calls : calls[i].op = "getState" <=> i = Len(calls))
    /\ [][pc # "Done"]_vars

\* A log of an IMU record, an unrecognized line and a CONTACT record was
\* handled to its end: two filter calls, then the query.
C12_Witness ==
    /\ pc = "Done"
    /\ unread = 0
    /\ Len(consumed) = 3
    /\ WellFormedLog
    /\ IsWellFormedImu(TokensOfLine(1))
    /\ ~IsRecognized(TokensOfLine(2))
    /\ TokensOfLine(3)[1] = CONTACT
    /\ Len(calls) = 3
    /\ calls[1].op = "Propagate" /\ calls[1].line = 1
    /\ calls[2].op = "setContacts" /\ calls[2].line = 3
    /\ calls[3].op = "getState"

\* --------------------------------------------------------------------- C13
\* the quaternion tokens (w, x, y, z) of the e-th 44-token block of m
QuaternionOfBlock(m, e) ==
    LET b == 44 * (e - 1) + 3
    IN  [w |-> stod(m[b + 1]).val, x |-> stod(m[b + 2]).val,
         y |-> stod(m[b + 3]).val, z |-> stod(m[b + 4]).val]

\* the position tokens of the e-th 44-token block of m
PositionOfBlock(m, e) ==
    LET b == 44 * (e - 1) + 3
    IN  <<stod(m[b + 5]).val, stod(m[b + 6]).val, stod(m[b + 7]).val>>

Identity3 == << <<SCALE, 0, 0>>, <<0, SCALE, 0>>, <<0, 0, SCALE>> >>

\* for each parsed KINEMATIC record and each of its blocks: the rotation of
\* the block's normalized quaternion, the block's position, and whether the
\* quaternion is 1 0 0 0
OwnPoses ==
    [n \in DOMAIN Lines |->
        IF n \in ParsedKinematicLines
        THEN [e \in 1..((Len(Tokens[n]) - 2) \div 44) |->
                [rot |-> toRotationMatrix(normalize(QuaternionOfBlock(Tokens[n], e))),
                 pos |-> PositionOfBlock(Tokens[n], e),
                 unit |-> QuaternionOfBlock(Tokens[n], e)
                            = [w |-> SCALE, x |-> 0, y |-> 0, z |-> 0]]]
        ELSE <<>>]

\* C13: every kinematic entry's pose is assembled only from the entry's own
\* tokens: its translation column is the entry's position, its bottom row is
\* (0,0,0,1) and its rotation block is the rotation of the entry's
\* normalized quaternion (the identity for 1 0 0 0); nothing of an earlier
\* entry's rotation or translation is left in a later entry's pose, and its
\* covariance is that of its own block.
C13_PoseFromOwnTokens ==
    \A i \in DOMAIN calls :
        calls[i].op = "CorrectKinematics"
        => LET own == OwnPoses[consumed[calls[i].line]]
               cov == RowMajorCovs[consumed[calls[i].line]]
           IN  /\ Len(calls[i].kinematics) = Len(own)
               /\ \A e \in DOMAIN calls[i].kinematics :
                    LET H == calls[i].kinematics[e].H
                    IN  /\ \A j \in 1..3 :
                              /\ H[j][4] = own[e].pos[j]
                              /\ <<H[j][1], H[j][2], H[j][3]>> = own[e].rot[j]
                        /\ H[4] = <<0, 0, 0, SCALE>>
                        /\ own[e].unit
                              => [j \in 1..3 |-> <<H[j][1], H[j][2], H[j][3]>>] = Identity3
                        /\ \A j, k \in 0..5 :
                              calls[i].kinematics[e].Cov[j + 1][k + 1] = cov[e][j][k]

\* A record of two entries: the first, quaternion 1 0 0 0 and position
\* 1 2 3, has the identity rotation and translation (1,2,3); the second,
\* quaternion 0 2 0 0 and position 2 3 4, has the half turn about x and
\* translation (2,3,4).
C13_Witness ==
    /\ Len(calls) >= 1
    /\ calls[Len(calls)].op = "CorrectKinematics"
    /\ Len(calls[Len(calls)].kinematics) = 2
    /\ OwnPoses[consumed[calls[Len(calls)].line]][1].unit
    /\ calls[Len(calls)].kinematics[1].H
          = << <<SCALE, 0, 0, 1 * SCALE>>, <<0, SCALE, 0, 2 * SCALE>>,
               <<0, 0, SCALE, 3 * SCALE>>, <<0, 0, 0, SCALE>> >>
    /\ calls[Len(calls)].kinematics[2].H
          = << <<SCALE, 0, 0, 2 * SCALE>>, <<0, -SCALE, 0, 3 * SCALE>>,
               <<0, 0, -SCALE, 4 * SCALE>>, <<0, 0, 0, SCALE>> >>

\* --------------------------------------------------------------------- C14
\* the recognized records among the lines read so far
RecognizedLinesSoFar == {n \in 1..Len(consumed) : IsRecognized(TokensOfLine(n))}

\* the timestamp field of the most recent of them
LastRecognizedTimestamp ==
    LET n == CHOOSE x \in RecognizedLinesSoFar : \A y \in RecognizedLinesSoFar : y <= x
    IN  stod(TokensOfLine(n)[2]).val

\* C14: the dt that gates an IMU record's propagation and is passed to it is
\* the record's timestamp minus the timestamp of the immediately preceding
\* recognized record, whatever its type (IMU, CONTACT or KINEMATIC): with a
\* CONTACT or KINEMATIC record between two IMU records the second IMU
\* record's dt is measured from the record in between, and an IMU record
\* directly after a record with the same timestamp never propagates.
C14_DtFromPrecedingRecord ==
    [][(ReadsLine /\ IsWellFormedImu(NewTokens) /\ RecognizedLinesSoFar # {})
        => LET dt == stod(NewTokens[2]).val - LastRecognizedTimestamp
           IN  /\ (DT_MIN < dt /\ dt < DT_MAX)
                    => InvokedNow("Propagate") /\ calls'[Len(calls')].dt = dt
               /\ ~(DT_MIN < dt /\ dt < DT_MAX) => calls' = calls
               /\ dt = 0 => calls' = calls]_vars

\* IMU at 0.000001, KINEMATIC at 0.5, IMU at 1: the second IMU record
\* propagates with dt = 0.5, not 0.999999.
C14_Witness ==
    /\ Len(consumed) = 3
    /\ IsWellFormedImu(TokensOfLine(1))
    /\ TokensOfLine(2)[1] \in {CONTACT, KINEMATIC}
    /\ IsWellFormedImu(TokensOfLine(3))
    /\ stod(TokensOfLine(1)[2]).val = DT_MIN
    /\ stod(TokensOfLine(2)[2]).val = SCALE \div 2
    /\ stod(TokensOfLine(3)[2]).val = SCALE
    /\ Len(calls) >= 1
    /\ calls[Len(calls)].op = "Propagate"
    /\ calls[Len(calls)].line = 3
    /\ calls[Len(calls)].dt = SCALE \div 2

\* --------------------------------------------------------------------- C15
\* the previous timestamp a first IMU record is measured against: that of
\* the preceding CONTACT or KINEMATIC record, 0 when there is none
FirstImuReference ==
    IF RecognizedLinesSoFar = {} THEN 0 ELSE LastRecognizedTimestamp

\* C15: before any line is read the previous timestamp is 0 and the previous
\* IMU sample is the all-zero vector; so the first IMU record of a log
\* triggers Propagate, with an all-zero sample that was never read from the
\* log, exactly when its dt against the previous timestamp (0, or the
\* timestamp of a preceding CONTACT/KINEMATIC record) is strictly between
\* 1e-6 and 1.
C15_FirstImuPropagatesZeroSample ==
    /\ [](Len(consumed) = 0 => t_prev = 0 /\ imu_measurement_prev = Zero6)
    /\ [][(ReadsLine /\ IsWellFormedImu(NewTokens) /\ ImuLinesUpTo(Len(consumed)) = {})
            => LET dt == stod(NewTokens[2]).val - FirstImuReference
               IN  IF DT_MIN < dt /\ dt < DT_MAX
                   THEN /\ InvokedNow("Propagate")
                        /\ calls'[Len(calls')].sample = Zero6
                        /\ calls'[Len(calls')].dt = dt
                   ELSE calls' = calls]_vars

\* A CONTACT record at 0.5, then the first IMU record of the log at 1 with
\* payload 1..6: Propagate received the all-zero sample and dt = 0.5.
C15_Witness ==
    /\ Len(consumed) = 2
    /\ TokensOfLine(1)[1] = CONTACT
    /\ stod(TokensOfLine(1)[2]).val = SCALE \div 2
    /\ IsWellFormedImu(TokensOfLine(2))
    /\ stod(TokensOfLine(2)[2]).val = SCALE
    /\ SampleOf(TokensOfLine(2)) # Zero6
    /\ Len(calls) = 2
    /\ calls[2].op = "Propagate"
    /\ calls[2].sample = Zero6
    /\ calls[2].dt = SCALE \div 2

\* --------------------------------------------------------------------- C16
\* 2^64 - 1 as an unsigned 64-bit value
MaxU64 == <<LIMB - 1, LIMB - 1, LIMB - 1, LIMB - 1>>

\* C16: for each of the three recognized tags, a line that is the tag alone
\* (one token, no timestamp) fails the field-count check: its payload length,
\* tokenCount - 2 in unsigned 64-bit arithmetic, wraps to 2^64 - 1, which is
\* not 6, is odd and is not a multiple of 44; token[1] is never read on it
\* (t keeps its value and no index leaves the line's range).
C16_TagAloneFailsArity ==
    [][(ReadsLine /\ Len(NewTokens) = 1 /\ IsRecognized(NewTokens))
        => /\ PayloadLen(NewTokens) = MaxU64
           /\ MaxU64 # U64(6)
           /\ ModU64(MaxU64, 2) = 1
           /\ ModU64(MaxU64, 44) # 0
           /\ pc' = "MalformedRecordError"
           /\ t' = t
           /\ UNCHANGED <<t_prev, imu_measurement, imu_measurement_prev, calls>>]_vars

\* After a CONTACT record at 1, the line "KINEMATIC" failed the field-count
\* check; t is still 1.
C16_Witness ==
    /\ pc = "MalformedRecordError"
    /\ Len(consumed) = 2
    /\ TokensOfLine(1)[1] = CONTACT
    /\ TokensOfLine(2) = <<KINEMATIC>>
    /\ PayloadLen(TokensOfLine(2)) = MaxU64
    /\ t = SCALE
    /\ t_prev = SCALE
    /\ Len(calls) = 1

\* --------------------------------------------------------------------- C17
\* the indices read on each line of the list
IndicesReadOfLine == [n \in DOMAIN Lines |-> IndicesRead(Tokens[n])]

\* the recognized lines of the list that pass the field-count check
PassesFieldCount(n) == IsRecognized(Tokens[n]) /\ ~ArityViolated(Tokens[n])

\* C17: whenever a line passes its type's field-count check, or has an
\* unrecognized tag, every token index read while handling it is within the
\* line's token range: 0..7 for IMU, i and i+1 for each CONTACT step
\* i = 2, 4, ..., i..i+43 for each KINEMATIC step i = 2, 46, ..., and only
\* index 0 for an unrecognized or empty line; no read leaves the range.
C17_IndicesWithinRange ==
    /\ pc # "UndefinedBehaviour"
    /\ \A n \in 1..Len(consumed) :
          LET k == consumed[n]
              m == Tokens[k]
          IN  /\ Len(m) >= 1
              /\ IndicesReadOfLine[k] \subseteq 0..(Len(m) - 1)
              /\ ~IsRecognized(m) => IndicesReadOfLine[k] = {0}
              /\ (PassesFieldCount(k) /\ m[1] = IMU) => IndicesReadOfLine[k] = 0..7
              /\ (PassesFieldCount(k) /\ m[1] = CONTACT)
                    => IndicesReadOfLine[k]
                         = {0, 1} \cup UNION {{i, i + 1} : i \in {x \in 2..(Len(m) - 1) : x % 2 = 0}}
              /\ (PassesFieldCount(k) /\ m[1] = KINEMATIC)
                    => IndicesReadOfLine[k]
                         = {0, 1} \cup UNION {i..(i + 43) :
                                                i \in {x \in 2..(Len(m) - 1) : (x - 2) % 44 = 0}}

\* A KINEMATIC record of two entries (90 tokens, indices 0..89 read), a
\* CONTACT record of two pairs (indices 0..5) and the empty line (index 0)
\* were handled and the loop goes on.
C17_Witness ==
    /\ pc = "ReadNextLine"
    /\ Len(consumed) = 3
    /\ TokensOfLine(1)[1] = KINEMATIC
    /\ IndicesReadOfLine[consumed[1]] = 0..89
    /\ TokensOfLine(2)[1] = CONTACT
    /\ IndicesReadOfLine[consumed[2]] = 0..5
    /\ Lines[consumed[3]] = <<>>
    /\ IndicesReadOfLine[consumed[3]] = {0}
    /\ Len(calls) = 2

====
